---- MODULE Spec2Model ----
(***************************************************************************)
(* Verification model of boardgame-rl: the ConnectFour game engine        *)
(* (src/game/connectfour.py) and the tabular learning Agent                *)
(* (src/rl/agent.py).                                                      *)
(*                                                                         *)
(* The board is the Python list self.board, modelled as a function over    *)
(* the 0-based indices 0..rows*cols-1.  Cell values are the one-character  *)
(* strings 'X', 'O' and '-'.  Python's None is the string "None".          *)
(***************************************************************************)
EXTENDS Integers, Sequences, FiniteSets, TLC

VARIABLES
    rows, cols, board, player, winner,  \* the ConnectFour instance
    qtables,    \* the dict objects of the process, by identity
    agents,     \* the Agent instances, in construction order
    train,      \* the position of a running Agent.train call
    steps,      \* direct step() calls made so far
    paints,     \* harness writes still allowed
    last        \* the last call made and what it returned

agentVars == <<qtables, agents, train, steps>>
vars == <<rows, cols, board, player, winner, qtables, agents, train, steps, paints, last>>

None == "None"
Marks == {"X", "O"}

\* ------------------------------------------------------------------ bounds
\* Number of harness writes (single cells or whole runs) into a board.
MaxPaints == 2
\* Harness writes on top of the column-3 run of the 6x7 board.
MaxExtra == 1
\* Direct step() calls in one behaviour.
MaxSteps == 7
\* Agent instances constructed in one behaviour.
MaxAgents == 2
\* Largest argument of train().
MaxEpisodes == 11
\* Games of one stats() run that are followed on a board of several cells.
MaxStatsGames == 2

\* Board sizes of the pure-function harness, of the 6x7 scenario and of play.
BoardDims == {<<1, 1>>, <<1, 4>>, <<4, 1>>, <<3, 3>>, <<4, 5>>, <<5, 4>>}
GameDims == {<<1, 1>>, <<2, 4>>, <<4, 2>>}
AgentDims == {<<1, 2>>, <<1, 3>>, <<1, 7>>}
SharedDims == {<<1, 1>>, <<1, 2>>}
TrainDims == {<<1, 1>>, <<1, 2>>, <<2, 1>>}
SessionDims == {<<1, 1>>, <<1, 2>>, <<1, 7>>, <<2, 4>>}

\* ------------------------------------------------------------ game engine
Cells(r, c) == 0 .. (r * c - 1)

create_board(r, c) == [i \in Cells(r, c) |-> "-"]

\* ''.join(board): concatenation of the cells in index order.
RECURSIVE join(_, _)
join(b, n) == IF n = 0 THEN "" ELSE join(b, n - 1) \o b[n - 1]

get_state(b) == join(b, Cardinality(DOMAIN b))

\* One iteration of the loop of get_open_moves: on an open cell, record
\* the action, write the player's mark, record the state, write '-' back.
RestoreCell(b, i) == [b EXCEPT ![i] = "-"]

OpenMovesRestoreSkipped(acc, i, p) ==
    IF acc.board[i] = "-"
    THEN LET marked == [acc.board EXCEPT ![i] = p]
         IN [board |-> marked,
             states |-> Append(acc.states, get_state(marked)),
             actions |-> Append(acc.actions, i)]
    ELSE acc

OpenMovesStatesSkipFirst(acc, i, p) ==
    IF acc.board[i] = "-" /\ i > 0
    THEN LET marked == [acc.board EXCEPT ![i] = p]
         IN [board |-> RestoreCell(marked, i),
             states |-> Append(acc.states, get_state(marked)),
             actions |-> Append(acc.actions, i)]
    ELSE acc

open_moves_body(acc, i, p) ==
    IF acc.board[i] = "-"
    THEN LET marked == [acc.board EXCEPT ![i] = p]
         IN [board |-> RestoreCell(marked, i),
             states |-> Append(acc.states, get_state(marked)),
             actions |-> Append(acc.actions, i)]
    ELSE acc

RECURSIVE open_moves_loop(_, _, _, _)
open_moves_loop(acc, i, n, p) ==
    IF i = n THEN acc
    ELSE open_moves_loop(open_moves_body(acc, i, p), i + 1, n, p)

\* get_open_moves: the returned (states, actions) and the board it leaves.
get_open_moves(b, p) ==
    open_moves_loop([board |-> b, states |-> <<>>, actions |-> <<>>],
                    0, Cardinality(DOMAIN b), p)

\* The test made on each four-cell sequence.
match(sequence) ==
    IF sequence = "XXXX" THEN "X"
    ELSE IF sequence = "OOOO" THEN "O"
    ELSE None

grid(b, c, i, j) == b[(i * c) + j]

\* The four guarded checks made at grid cell (i, j), in order.
CellRunsNoVertical(b, r, c, i, j) ==
    LET h == IF j <= c - 4
             THEN match(grid(b, c, i, j) \o grid(b, c, i, j + 1)
                        \o grid(b, c, i, j + 2) \o grid(b, c, i, j + 3))
             ELSE None
        dr == IF i <= r - 4 /\ j <= c - 4
              THEN match(grid(b, c, i, j) \o grid(b, c, i + 1, j + 1)
                         \o grid(b, c, i + 2, j + 2) \o grid(b, c, i + 3, j + 3))
              ELSE None
        dl == IF i <= r - 4 /\ j >= 3
              THEN match(grid(b, c, i, j) \o grid(b, c, i + 1, j - 1)
                         \o grid(b, c, i + 2, j - 2) \o grid(b, c, i + 3, j - 3))
              ELSE None
    IN IF h # None THEN h
       ELSE IF dr # None THEN dr
       ELSE dl

cell_runs(b, r, c, i, j) ==
    LET h == IF j <= c - 4
             THEN match(grid(b, c, i, j) \o grid(b, c, i, j + 1)
                        \o grid(b, c, i, j + 2) \o grid(b, c, i, j + 3))
             ELSE None
        v == IF i <= r - 4
             THEN match(grid(b, c, i, j) \o grid(b, c, i + 1, j)
                        \o grid(b, c, i + 2, j) \o grid(b, c, i + 3, j))
             ELSE None
        dr == IF i <= r - 4 /\ j <= c - 4
              THEN match(grid(b, c, i, j) \o grid(b, c, i + 1, j + 1)
                         \o grid(b, c, i + 2, j + 2) \o grid(b, c, i + 3, j + 3))
              ELSE None
        dl == IF i <= r - 4 /\ j >= 3
              THEN match(grid(b, c, i, j) \o grid(b, c, i + 1, j - 1)
                         \o grid(b, c, i + 2, j - 2) \o grid(b, c, i + 3, j - 3))
              ELSE None
    IN IF h # None THEN h
       ELSE IF v # None THEN v
       ELSE IF dr # None THEN dr
       ELSE dl

\* for i in range(rows): for j in range(cols): k is the flat position i*cols+j.
RECURSIVE scan(_, _, _, _)
scan(b, r, c, k) ==
    IF k = r * c THEN None
    ELSE LET found == cell_runs(b, r, c, k \div c, k % c)
         IN IF found # None THEN found ELSE scan(b, r, c, k + 1)

is_win(b, r, c) ==
    LET found == scan(b, r, c, 0)
    IN IF found # None THEN found
       ELSE IF \A k \in DOMAIN b : b[k] # "-" THEN "Draw"
       ELSE None

IsValidMoveAnyCell(b, position) ==
    IF position >= 0 /\ position < Cardinality(DOMAIN b)
    THEN TRUE
    ELSE FALSE

ToggleKeepsPlayer(p) == p

is_valid_move(b, position) ==
    IF position >= 0 /\ position < Cardinality(DOMAIN b)
    THEN b[position] = "-"
    ELSE FALSE

toggle(p) == IF p = "X" THEN "O" ELSE "X"

\* make_move: the board and player it leaves and the status it returns.
move(b, r, c, p, position) ==
    LET placed == [b EXCEPT ![position] = p]
    IN [board |-> placed, player |-> toggle(p), status |-> is_win(placed, r, c)]

\* ------------------------------------------------------- record of a call
NoCall ==
    [op |-> "none", status |-> None, states |-> <<>>, actions |-> <<>>,
     agent |-> 0, step_state |-> "", update_state |-> "",
     reward |-> <<0, 1>>, future_val |-> <<0, 1>>, old |-> <<0, 1>>,
     value |-> <<0, 1>>,
     position |-> -1, valid |-> FALSE, explore |-> FALSE, draws |-> <<>>,
     seen |-> FALSE, optimal |-> {}]

Called(name, st, ss, as) ==
    [NoCall EXCEPT !.op = name, !.status = st, !.states = ss, !.actions = as]

\* -------------------------------------------------------- engine actions
\* ConnectFour(rows, cols)
Construct(r, c) ==
    /\ rows = r
    /\ cols = c
    /\ board = create_board(r, c)
    /\ player = "X"
    /\ winner = None

reset ==
    /\ board' = create_board(rows, cols)
    /\ player' = "X"
    /\ winner' = None
    /\ last' = Called("reset", None, <<>>, <<>>)
    /\ UNCHANGED <<rows, cols, paints, agentVars>>

\* make_move(position), called as the callers of the repository call it:
\* after is_valid_move(position) answered True.
make_move(position) ==
    /\ is_valid_move(board, position)
    /\ LET mv == move(board, rows, cols, player, position)
       IN /\ board' = mv.board
          /\ player' = mv.player
          /\ last' = Called("make_move", mv.status, <<>>, <<>>)
    /\ UNCHANGED <<rows, cols, winner, paints, agentVars>>

get_open_moves_call ==
    LET out == get_open_moves(board, player)
    IN /\ board' = out.board
       /\ last' = Called("get_open_moves", None, out.states, out.actions)
       /\ UNCHANGED <<rows, cols, player, winner, paints, agentVars>>

is_win_call ==
    /\ last' = Called("is_win", is_win(board, rows, cols), <<>>, <<>>)
    /\ UNCHANGED <<rows, cols, board, player, winner, paints, agentVars>>

\* is_valid_move(position), for any integer position.
is_valid_move_call(position) ==
    /\ last' = [NoCall EXCEPT !.op = "is_valid_move", !.position = position,
                              !.valid = is_valid_move(board, position)]
    /\ UNCHANGED <<rows, cols, board, player, winner, paints, agentVars>>

\* ---------------------------------------------------------------- agent
\* Python floats.  Every estimate the model reaches is a dyadic rational
\* with a small exponent, on which the float arithmetic of the update is
\* exact; a float is the pair <<numerator, denominator>> in lowest terms.
RECURSIVE gcd(_, _)
gcd(a, b) == IF b = 0 THEN a ELSE gcd(b, a % b)

Abs(x) == IF x < 0 THEN -x ELSE x

Rat(n, d) == LET g == gcd(Abs(n), d) IN <<n \div g, d \div g>>

Zero == <<0, 1>>
One == <<1, 1>>
Half == <<1, 2>>

RAdd(x, y) == Rat((x[1] * y[2]) + (y[1] * x[2]), x[2] * y[2])
RSub(x, y) == Rat((x[1] * y[2]) - (y[1] * x[2]), x[2] * y[2])
RMul(x, y) == Rat(x[1] * y[1], x[2] * y[2])
RLess(x, y) == x[1] * y[2] < y[1] * x[2]

\* dict(): a dict is a function from its keys to their values.
EmptyTable == [s \in {} |-> Zero]

\* The dict object created once by the default argument qtable=dict().
DefaultDict == 0

\* Agent.__init__: the instance, holding a reference to its dict.
Agent(table, agent_player, learning_rate, discount, epsilon) ==
    [qtable |-> table, player |-> agent_player, learning_rate |-> learning_rate,
     discount |-> discount, epsilon |-> epsilon]

QvalueNotStored(q, state) ==
    [qtable |-> q, value |-> IF state \in DOMAIN q THEN q[state] ELSE <<0, 1>>]

\* qvalue(state): the value returned and the dict left behind.
qvalue(q, state) ==
    IF state \notin DOMAIN q
    THEN [qtable |-> [s \in DOMAIN q \cup {state} |-> IF s = state THEN Zero ELSE q[s]],
          value |-> Zero]
    ELSE [qtable |-> q, value |-> q[state]]

\* [self.qvalue(s) for s in states]: each call inserts its state at 0.0 if
\* it is not a key and changes nothing else, so the dict after the calls
\* holds every listed state, and values[k] is the entry of states[k].
QvaluesInsertOne(q, states) ==
    LET listed == {states[k] : k \in 1 .. Len(states)}
        after == [s \in DOMAIN q \cup listed |-> IF s \in DOMAIN q THEN q[s] ELSE One]
    IN [qtable |-> after, values |-> [k \in 1 .. Len(states) |-> after[states[k]]]]

qvalues(q, states) ==
    LET listed == {states[k] : k \in 1 .. Len(states)}
        after == [s \in DOMAIN q \cup listed |-> IF s \in DOMAIN q THEN q[s] ELSE Zero]
    IN [qtable |-> after, values |-> [k \in 1 .. Len(states) |-> after[states[k]]]]

\* np.max / np.min of a non-empty list.
np_max(values) ==
    CHOOSE v \in {values[k] : k \in 1 .. Len(values)} :
        \A k \in 1 .. Len(values) : ~RLess(v, values[k])

np_min(values) ==
    CHOOSE v \in {values[k] : k \in 1 .. Len(values)} :
        \A k \in 1 .. Len(values) : ~RLess(values[k], v)

\* argmax / argmin: the indices np.random.choice draws from (1-based here,
\* 0-based in the source).
ArgmaxFirstOnly(values) ==
    LET vmax == np_max(values)
    IN {CHOOSE k \in 1 .. Len(values) :
            values[k] = vmax /\ \A j \in 1 .. (k - 1) : values[j] # vmax}

argmax(values) ==
    LET vmax == np_max(values) IN {k \in 1 .. Len(values) : values[k] = vmax}

argmin(values) ==
    LET vmin == np_min(values) IN {k \in 1 .. Len(values) : values[k] = vmin}

\* game.available_moves(): the engine's enumeration of open moves.
available_moves(b, p) == get_open_moves(b, p)

\* The indices optimal_next may return for the values it computed.
\* Either branch ends in one np.random.choice, also when one index is tied.
OptimalIndicesFlipped(vs, own_move) ==
    [qtable |-> vs.qtable,
     indices |-> IF own_move THEN argmin(vs.values) ELSE argmax(vs.values),
     draws |-> <<"choice">>]

optimal_indices(vs, own_move) ==
    [qtable |-> vs.qtable,
     indices |-> IF own_move THEN argmax(vs.values) ELSE argmin(vs.values),
     draws |-> <<"choice">>]

\* optimal_next(states): the dict left behind and the indices it may return.
optimal_next(q, states, game_player, agent_player) ==
    optimal_indices(qvalues(q, states), game_player = agent_player)

\* The np.random calls of one next_move(), in the order they are made:
\* those of optimal_next(), the epsilon test, and randint when exploring.
DrawsEpsilonTestFirst(opt, explore) ==
    <<"random_sample">> \o (IF explore THEN <<"randint">> ELSE opt.draws)

next_move_draws(opt, explore) ==
    opt.draws \o <<"random_sample">> \o (IF explore THEN <<"randint">> ELSE <<>>)

\* What one next_move() returns and how it got there.
PickIndexAsAction(moves, opt, k, explore) ==
    [action |-> k - 1, explore |-> explore,
     draws |-> next_move_draws(opt, explore),
     optimal |-> {moves.actions[j] : j \in opt.indices}]

pick(moves, opt, k, explore) ==
    [action |-> moves.actions[k], explore |-> explore,
     draws |-> next_move_draws(opt, explore),
     optimal |-> {moves.actions[j] : j \in opt.indices}]

\* next_move(): np.random.random_sample() lies in [0, 1), so the explore
\* branch can be taken iff epsilon > 0 and skipped iff epsilon < 1.
move_choices(ag, moves, opt) ==
    [qtable |-> opt.qtable,
     board |-> moves.board,
     picks |-> {pick(moves, opt, k, TRUE) :
                  k \in IF RLess(Zero, ag.epsilon) THEN 1 .. Len(moves.states) ELSE {}}
               \cup {pick(moves, opt, k, FALSE) :
                       k \in IF RLess(ag.epsilon, One) THEN opt.indices ELSE {}}]

next_move_on(q, ag, moves, p) ==
    move_choices(ag, moves, optimal_next(q, moves.states, p, ag.player))

next_move(q, ag, b, p) == next_move_on(q, ag, available_moves(b, p), p)

RewardIgnoresIdentity(ag, status) ==
    IF status = "X" THEN One
    ELSE IF status = "O" THEN <<-1, 1>>
    ELSE Zero

reward(ag, status) ==
    LET opponent == IF ag.player = "X" THEN "O" ELSE "X"
    IN IF status = ag.player THEN One
       ELSE IF status = opponent THEN <<-1, 1>>
       ELSE Zero

\* The bootstrap of update(): future_val and the dict and board left behind.
\* Every index optimal_next may return holds the same value.
future_value(moves, fv) ==
    [qtable |-> fv.qtable, board |-> moves.board, future_val |-> fv.value]

future_pick(moves, opt) ==
    future_value(moves, qvalue(opt.qtable, moves.states[CHOOSE k \in opt.indices : TRUE]))

future_on(f, ag, moves) ==
    future_pick(moves, optimal_next(f.qtable, moves.states, f.player, ag.player))

future(f, ag, status) ==
    IF status = None
    THEN future_on(f, ag, available_moves(f.board, f.player))
    ELSE [qtable |-> f.qtable, board |-> f.board, future_val |-> Zero]

BlendRewardUndamped(ag, old, rew, future_val) ==
    RAdd(RAdd(RMul(RSub(One, ag.learning_rate), old), rew),
         RMul(ag.learning_rate, RMul(ag.discount, future_val)))

\* The right-hand side of the Q-value update.
blend(ag, old, rew, future_val) ==
    RAdd(RMul(RSub(One, ag.learning_rate), old),
         RMul(ag.learning_rate, RAdd(rew, RMul(ag.discount, future_val))))

\* self.qtable[state] = ...: old is what self.qvalue(state) returned.
write_entry(state, old, new, fut) ==
    [qtable |-> [s \in DOMAIN old.qtable |-> IF s = state THEN new ELSE old.qtable[s]],
     board |-> fut.board, state |-> state,
     old |-> old.value, future_val |-> fut.future_val]

update_entry(ag, state, old, rew, fut) ==
    write_entry(state, old, blend(ag, old.value, rew, fut.future_val), fut)

update_at(ag, state, rew, fut) ==
    update_entry(ag, state, qvalue(fut.qtable, state), rew, fut)

\* f is the agent's frame when update() is entered: the game's board and
\* player, the dict, and the local `state` of the running step().
UpdateWritesStepState(f, ag, rew, status) ==
    update_at(ag, f.state, rew, future(f, ag, status))

update(f, ag, rew, status) ==
    update_at(ag, get_state(f.board), rew, future(f, ag, status))

\* step() from the point where next_move() has returned `action`, nm being
\* the dict and board next_move() left behind.
step_result(state, mv, rew, up) ==
    [board |-> up.board, player |-> mv.player, qtable |-> up.qtable,
     status |-> mv.status, step_state |-> state, update_state |-> up.state,
     reward |-> rew, future_val |-> up.future_val, old |-> up.old]

step_rewarded(nm, ag, state, mv, rew) ==
    step_result(state, mv, rew,
                update([state |-> state, board |-> mv.board, player |-> mv.player,
                        qtable |-> nm.qtable], ag, rew, mv.status))

step_moved(nm, ag, state, mv) ==
    step_rewarded(nm, ag, state, mv, reward(ag, mv.status))

step_with(nm, ag, b, r, c, p, action) ==
    step_moved(nm, ag, get_state(b), move(nm.board, r, c, p, action))

StepCalled(name, a, out, picked) ==
    [NoCall EXCEPT !.op = name, !.agent = a, !.status = out.status,
                   !.step_state = out.step_state, !.update_state = out.update_state,
                   !.reward = out.reward, !.future_val = out.future_val,
                   !.old = out.old, !.position = picked.action,
                   !.explore = picked.explore, !.draws = picked.draws,
                   !.optimal = picked.optimal]

\* The effect of a step() of agents[a] on the game and on the agent's dict.
step_effect(a, out, picked) ==
    /\ board' = out.board
    /\ player' = out.player
    /\ qtables' = [qtables EXCEPT ![agents[a].qtable] = out.qtable]
    /\ last' = StepCalled("step", a, out, picked)

step_choice(a, nm) ==
    \E picked \in nm.picks :
        step_effect(a, step_with(nm, agents[a], board, rows, cols, player, picked.action),
                    picked)

\* A direct call of agents[a].step() on a game in progress.
step(a) ==
    /\ a \in DOMAIN agents
    /\ train.status = "idle"
    /\ steps < MaxSteps
    /\ is_win(board, rows, cols) = None
    /\ step_choice(a, next_move(qtables[agents[a].qtable], agents[a], board, player))
    /\ steps' = steps + 1
    /\ UNCHANGED <<rows, cols, winner, agents, train, paints>>

\* The caller's reset() between games, as train() does it.
reset_after_game ==
    /\ train.status = "idle"
    /\ is_win(board, rows, cols) # None
    /\ reset

\* No Agent exists yet; only the default-argument dict does.
NoAgent ==
    /\ qtables = [d \in {DefaultDict} |-> EmptyTable]
    /\ agents = <<>>
    /\ train = [status |-> "idle", agent |-> 0, episodes |-> 0, i |-> 0, games |-> 0]
    /\ steps = 0

\* a = Agent(game, ...): with no qtable argument the instance holds the
\* default-argument dict; with one, the dict object the caller passed.
agent_construct(use_default, supplied, agent_player) ==
    /\ Len(agents) < MaxAgents
    /\ train.status = "idle"
    /\ LET id == IF use_default THEN DefaultDict ELSE Len(agents) + 1
       IN /\ agents' = Append(agents, Agent(id, agent_player, Half, One, Half))
          /\ qtables' = IF use_default THEN qtables
                        ELSE [d \in DOMAIN qtables \cup {id} |->
                                 IF d = id THEN supplied ELSE qtables[d]]
          /\ last' = [NoCall EXCEPT !.op = "Agent", !.agent = Len(agents) + 1]
    /\ UNCHANGED <<rows, cols, board, player, winner, train, steps, paints>>

\* agents[a].qvalue(get_state(board))
qvalue_call(a) ==
    /\ a \in DOMAIN agents
    /\ train.status = "idle"
    /\ LET id == agents[a].qtable
           out == qvalue(qtables[id], get_state(board))
       IN /\ qtables' = [qtables EXCEPT ![id] = out.qtable]
          /\ last' = [NoCall EXCEPT !.op = "qvalue", !.agent = a, !.value = out.value,
                                    !.step_state = get_state(board),
                                    !.seen = get_state(board) \in DOMAIN qtables[id]]
    /\ UNCHANGED <<rows, cols, board, player, winner, agents, train, steps, paints>>

\* agents[a].train(episodes), entered on a freshly reset board.
train_start(a, episodes) ==
    /\ a \in DOMAIN agents
    /\ train.status = "idle"
    /\ board = create_board(rows, cols)
    /\ player = "X"
    /\ train' = [status |-> IF episodes <= 0 THEN "done" ELSE "running",
                 agent |-> a, episodes |-> episodes, i |-> 0, games |-> 0]
    /\ last' = [NoCall EXCEPT !.op = "train", !.agent = a]
    /\ UNCHANGED <<rows, cols, board, player, winner, qtables, agents, steps, paints>>

\* The end of episode i of train(): the progress test i%(episodes/10), in
\* Python 2 integer arithmetic, and the advance of the for loop.
episode_end(tr) ==
    LET tenth == tr.episodes \div 10
    IN IF tenth = 0
       THEN [tr EXCEPT !.status = "ZeroDivisionError", !.games = @ + 1]
       ELSE IF tr.i + 1 = tr.episodes
       THEN [tr EXCEPT !.status = "done", !.i = @ + 1, !.games = @ + 1]
       ELSE [tr EXCEPT !.i = @ + 1, !.games = @ + 1]

\* One iteration of the while loop of train(): a step(), and on a status
\* other than None the reset() and the end of the episode.
train_effect(a, out, over, picked) ==
    /\ board' = IF over THEN create_board(rows, cols) ELSE out.board
    /\ player' = IF over THEN "X" ELSE out.player
    /\ winner' = IF over THEN None ELSE winner
    /\ qtables' = [qtables EXCEPT ![agents[a].qtable] = out.qtable]
    /\ train' = IF over THEN episode_end(train) ELSE train
    /\ last' = StepCalled("train_step", a, out, picked)

train_iteration(a, out, picked) == train_effect(a, out, out.status # None, picked)

train_choice(a, nm) ==
    \E picked \in nm.picks :
        train_iteration(a, step_with(nm, agents[a], board, rows, cols, player,
                                     picked.action),
                        picked)

train_step ==
    /\ train.status = "running"
    /\ train_choice(train.agent,
                    next_move(qtables[agents[train.agent].qtable], agents[train.agent],
                              board, player))
    /\ UNCHANGED <<rows, cols, agents, steps, paints>>

\* agents[a].reward(status)
reward_call(a, status) ==
    /\ a \in DOMAIN agents
    /\ train.status = "idle"
    /\ last' = [NoCall EXCEPT !.op = "reward", !.agent = a, !.status = status,
                              !.reward = reward(agents[a], status)]
    /\ UNCHANGED <<rows, cols, board, player, winner, qtables, agents, train, steps,
                   paints>>

\* episodes = 10000 in stats().
StatsEpisodes == 10000

\* On the one-cell board every game is the same single move and a stats()
\* run is followed to its end; elsewhere its first games are followed.
StatsGamesFollowed(r, c) == IF r * c = 1 THEN StatsEpisodes ELSE MaxStatsGames

\* agents[a].stats(), entered on a freshly reset board.  The tallies
\* x_wins, o_wins and draws are locals that are only printed.
stats_start(a) ==
    /\ a \in DOMAIN agents
    /\ train.status = "idle"
    /\ board = create_board(rows, cols)
    /\ player = "X"
    /\ train' = [status |-> "stats", agent |-> a, episodes |-> StatsEpisodes,
                 i |-> 0, games |-> 0]
    /\ last' = [NoCall EXCEPT !.op = "stats", !.agent = a]
    /\ UNCHANGED <<rows, cols, board, player, winner, qtables, agents, steps, paints>>

\* The end of a game of stats(): the advance of the for loop.
stats_game_end(tr) ==
    IF tr.i + 1 = tr.episodes
    THEN [tr EXCEPT !.status = "done", !.i = @ + 1, !.games = @ + 1]
    ELSE [tr EXCEPT !.i = @ + 1, !.games = @ + 1]

\* One iteration of the while loop of stats(): optimal_next() on the
\* available moves, make_move(), and on a status other than None the reset().
stats_effect(a, q, mv, over, action) ==
    /\ board' = IF over THEN create_board(rows, cols) ELSE mv.board
    /\ player' = IF over THEN "X" ELSE mv.player
    /\ winner' = IF over THEN None ELSE winner
    /\ qtables' = [qtables EXCEPT ![agents[a].qtable] = q]
    /\ train' = IF over THEN stats_game_end(train) ELSE train
    /\ last' = [NoCall EXCEPT !.op = "stats_step", !.agent = a, !.status = mv.status,
                              !.position = action]

stats_moved(a, q, mv, action) == stats_effect(a, q, mv, mv.status # None, action)

stats_pick(a, moves, opt) ==
    \E k \in opt.indices :
        stats_moved(a, opt.qtable,
                    move(moves.board, rows, cols, player, moves.actions[k]),
                    moves.actions[k])

stats_choice(a, moves) ==
    stats_pick(a, moves,
               optimal_next(qtables[agents[a].qtable], moves.states, player,
                            agents[a].player))

stats_step ==
    /\ train.status = "stats"
    /\ train.games < StatsGamesFollowed(rows, cols)
    /\ stats_choice(train.agent, available_moves(board, player))
    /\ UNCHANGED <<rows, cols, agents, steps, paints>>

\* train() or stats() has returned, or train() has raised and the caller
\* caught it: the session goes on.
returned ==
    /\ train.status \in {"done", "ZeroDivisionError"}
    /\ train' = [status |-> "idle", agent |-> 0, episodes |-> 0, i |-> 0, games |-> 0]
    /\ last' = [NoCall EXCEPT !.op = "returned"]
    /\ UNCHANGED <<rows, cols, board, player, winner, qtables, agents, steps, paints>>

\* ----------------------------------------------------- board harness
\* A test harness writes marks straight into self.board, bypassing play.
Directions == {<<0, 1>>, <<1, 0>>, <<1, 1>>, <<1, -1>>}

InGrid(r, c, i, j) == i >= 0 /\ i < r /\ j >= 0 /\ j < c

RunCells(c, i, j, d) == {((i + (n * d[1])) * c) + (j + (n * d[2])) : n \in 0 .. 3}

Column3Run == {17, 24, 31, 38}

PaintCell(k, m) ==
    /\ paints > 0
    /\ board[k] # m
    /\ board' = [board EXCEPT ![k] = m]
    /\ paints' = paints - 1
    /\ last' = NoCall
    /\ UNCHANGED <<rows, cols, player, winner, agentVars>>

PaintRun(i, j, d, m, keep) ==
    /\ paints > 0
    /\ InGrid(rows, cols, i + (3 * d[1]), j + (3 * d[2]))
    /\ board' = [k \in DOMAIN board |->
                    IF k \in RunCells(cols, i, j, d) \ keep THEN m ELSE board[k]]
    /\ paints' = paints - 1
    /\ last' = NoCall
    /\ UNCHANGED <<rows, cols, player, winner, agentVars>>

FillOpen(m) ==
    /\ paints > 0
    /\ \E k \in DOMAIN board : board[k] = "-"
    /\ board' = [k \in DOMAIN board |-> IF board[k] = "-" THEN m ELSE board[k]]
    /\ paints' = paints - 1
    /\ last' = NoCall
    /\ UNCHANGED <<rows, cols, player, winner, agentVars>>

\* ------------------------------------------------------- specifications
\* Legal play on a freshly constructed game.
Init ==
    /\ \E d \in GameDims : Construct(d[1], d[2])
    /\ NoAgent
    /\ paints = 0
    /\ last = NoCall

Next ==
    \/ \E position \in -1 .. (rows * cols) : make_move(position)
    \/ reset
    \/ get_open_moves_call
    \/ is_win_call
    \/ \E position \in -2 .. (rows * cols + 1) : is_valid_move_call(position)

Spec == Init /\ [][Next]_vars

\* is_win as a pure function of arbitrary board contents.
InitBoard ==
    /\ \E d \in BoardDims : Construct(d[1], d[2])
    /\ NoAgent
    /\ paints = MaxPaints
    /\ last = NoCall

NextBoard ==
    \/ \E k \in DOMAIN board, m \in Marks : PaintCell(k, m)
    \/ \E i \in 0 .. (rows - 1), j \in 0 .. (cols - 1), d \in Directions, m \in Marks :
          PaintRun(i, j, d, m, {})
    \/ \E m \in Marks : FillOpen(m)
    \/ is_win_call

SpecBoard == InitBoard /\ [][NextBoard]_vars

\* The 6x7 board with column 3, rows 2..5, holding one mark.
InitColumn3 ==
    /\ rows = 6
    /\ cols = 7
    /\ \E m \in Marks :
          board = [k \in Cells(6, 7) |-> IF k \in Column3Run THEN m ELSE "-"]
    /\ player = "X"
    /\ winner = None
    /\ NoAgent
    /\ paints = MaxExtra
    /\ last = NoCall

NextColumn3 ==
    \/ \E k \in DOMAIN board \ Column3Run, m \in Marks \cup {"-"} : PaintCell(k, m)
    \/ \E i \in 0 .. (rows - 1), j \in 0 .. (cols - 1), d \in Directions, m \in Marks :
          PaintRun(i, j, d, m, Column3Run)
    \/ is_win_call

SpecColumn3 == InitColumn3 /\ [][NextColumn3]_vars

\* One Agent stepping a game directly.  A supplied table holds estimates
\* for the board with X on cell 0 and for the board with X on 0 and O on 1.
SuppliedTable(r, c, v1, v2) ==
    LET b1 == [create_board(r, c) EXCEPT ![0] = "X"]
        b2 == [b1 EXCEPT ![1] = "O"]
    IN [s \in {get_state(b1), get_state(b2)} |-> IF s = get_state(b1) THEN v1 ELSE v2]

SuppliedTables(r, c) ==
    {SuppliedTable(r, c, Half, <<-1, 2>>), SuppliedTable(r, c, <<-1, 4>>, <<3, 4>>)}

LearningRates == {Half, <<1, 4>>}
Discounts == {One, Half}

InitAgent ==
    /\ \E d \in AgentDims : Construct(d[1], d[2])
    /\ \E use_default \in BOOLEAN, supplied \in SuppliedTables(rows, cols),
          agent_player \in Marks, learning_rate \in LearningRates, discount \in Discounts :
          \* the 1x7 board is played by Agent(game): default table and parameters
          /\ rows * cols > 3 => (use_default /\ learning_rate = Half /\ discount = One)
          /\ qtables = IF use_default THEN [d \in {DefaultDict} |-> EmptyTable]
                       ELSE [d \in {DefaultDict, 1} |->
                                IF d = 1 THEN supplied ELSE EmptyTable]
          /\ agents = <<Agent(IF use_default THEN DefaultDict ELSE 1, agent_player,
                              learning_rate, discount, Half)>>
    /\ train = [status |-> "idle", agent |-> 0, episodes |-> 0, i |-> 0, games |-> 0]
    /\ steps = 0
    /\ paints = 0
    /\ last = NoCall

NextAgent ==
    \/ \E a \in DOMAIN agents : step(a)
    \/ reset_after_game

SpecAgent == InitAgent /\ [][NextAgent]_vars

\* Several Agents constructed in one process on one game.
InitShared ==
    /\ \E d \in SharedDims : Construct(d[1], d[2])
    /\ NoAgent
    /\ paints = 0
    /\ last = NoCall

NextShared ==
    \/ \E use_default \in BOOLEAN, agent_player \in Marks :
          agent_construct(use_default, EmptyTable, agent_player)
    \/ \E a \in DOMAIN agents : step(a)
    \/ reset_after_game

SpecShared == InitShared /\ [][NextShared]_vars

\* One Agent, constructed with the defaults, running train().
InitTrain ==
    /\ \E d \in TrainDims : Construct(d[1], d[2])
    /\ qtables = [d \in {DefaultDict} |-> EmptyTable]
    /\ \E agent_player \in Marks : agents = <<Agent(DefaultDict, agent_player, Half, One, Half)>>
    /\ train = [status |-> "idle", agent |-> 0, episodes |-> 0, i |-> 0, games |-> 0]
    /\ steps = 0
    /\ paints = 0
    /\ last = NoCall

NextTrain ==
    \/ \E episodes \in 1 .. MaxEpisodes : train_start(1, episodes)
    \/ train_step

SpecTrain == InitTrain /\ [][NextTrain]_vars

\* A session of calls on one Agent: step(), qvalue(), reward(), train() and
\* stats() in any order.  gamma is 1 throughout.
\*  - 1x1: every call but a direct step(), from an empty table;
\*  - 1x2: every call, from an empty or a supplied table;
\*  - 1x7: direct step() calls of an X agent from an empty table, alpha = 1;
\*  - 2x4: a supplied table along whose entries greedy play is the game
\*    X 0, O 4, X 1, O 5, X 2, O 6 or 7, X 3 (X wins with one cell open),
\*    played with epsilon = 0 and alpha = 0.
GuidePath == <<0, 4, 1, 5, 2, 6, 3>>

RECURSIVE GuideBoard(_, _, _)
GuideBoard(r, c, n) ==
    IF n = 0 THEN create_board(r, c)
    ELSE [GuideBoard(r, c, n - 1) EXCEPT ![GuidePath[n]] = IF n % 2 = 1 THEN "X" ELSE "O"]

\* O's third move on cell 7 instead of cell 6.
GuideFork(r, c) == [GuideBoard(r, c, 5) EXCEPT ![7] = "O"]

GuideEntries(r, c) ==
    {<<get_state(GuideBoard(r, c, n)), IF n % 2 = 1 THEN One ELSE <<-1, 1>>>> :
        n \in 1 .. Len(GuidePath)}
    \cup {<<get_state(GuideFork(r, c)), <<-1, 1>>>>,
          <<get_state([GuideFork(r, c) EXCEPT ![3] = "X"]), One>>}

GuideTable(r, c) ==
    [s \in {e[1] : e \in GuideEntries(r, c)} |->
        (CHOOSE e \in GuideEntries(r, c) : e[1] = s)[2]]

SessionTables(r, c) ==
    IF r * c = 8 THEN {GuideTable(r, c)}
    ELSE IF r * c = 2
    THEN {EmptyTable, SuppliedTable(r, c, One, <<-1, 1>>),
          SuppliedTable(r, c, <<-1, 2>>, <<3, 4>>)}
    ELSE {EmptyTable}

SessionRates(r, c) ==
    IF r * c = 8 THEN {Zero}
    ELSE IF r * c = 7 THEN {One}
    ELSE IF r * c = 1 THEN {Half}
    ELSE {Zero, One}

SessionPlayers(r, c) == IF r * c = 2 THEN Marks ELSE {"X"}

InitSession ==
    /\ \E d \in SessionDims : Construct(d[1], d[2])
    /\ \E table \in SessionTables(rows, cols), agent_player \in SessionPlayers(rows, cols),
          learning_rate \in SessionRates(rows, cols) :
          /\ qtables = [d \in {DefaultDict, 1} |-> IF d = 1 THEN table ELSE EmptyTable]
          /\ agents = <<Agent(1, agent_player, learning_rate, One,
                              IF rows * cols = 8 THEN Zero ELSE Half)>>
    /\ train = [status |-> "idle", agent |-> 0, episodes |-> 0, i |-> 0, games |-> 0]
    /\ steps = 0
    /\ paints = 0
    /\ last = NoCall

\* The boards on which the games of train() and stats() are followed, and
\* those on which step() is called directly.
Followed == rows * cols <= 2 \/ rows * cols = 8

Stepped == rows * cols > 1

Statuses == {"X", "O", "Draw", None}

NextSession ==
    \/ Stepped /\ \E a \in DOMAIN agents : step(a)
    \/ reset_after_game
    \/ Followed /\ \E a \in DOMAIN agents : qvalue_call(a)
    \/ Followed /\ \E a \in DOMAIN agents, status \in Statuses : reward_call(a, status)
    \/ Followed /\ \E episodes \in {1, MaxEpisodes} : train_start(1, episodes)
    \/ train_step
    \/ Followed /\ stats_start(1)
    \/ stats_step
    \/ returned

SpecSession == InitSession /\ [][NextSession]_vars

\* ------------------------------------------------- reference definitions
\* The four-cell windows of an r x c grid that stay in bounds.
Windows(r, c) ==
    {w \in (0 .. (r - 1)) \X (0 .. (c - 1)) \X Directions :
        InGrid(r, c, w[1] + (3 * w[3][1]), w[2] + (3 * w[3][2]))}

HoldsRun(b, c, w, m) == \A k \in RunCells(c, w[1], w[2], w[3]) : b[k] = m

WinningWindows(b, r, c) ==
    {w \in Windows(r, c) : \E m \in Marks : HoldsRun(b, c, w, m)}

HasRun(b, r, c, m) == \E w \in Windows(r, c) : HoldsRun(b, c, w, m)

DirectionRank(d) ==
    CASE d = <<0, 1>> -> 0
      [] d = <<1, 0>> -> 1
      [] d = <<1, 1>> -> 2
      [] d = <<1, -1>> -> 3

ScanRank(c, w) == (((w[1] * c) + w[2]) * 4) + DirectionRank(w[3])

RefStatus(b, r, c) ==
    LET ws == WinningWindows(b, r, c)
    IN IF ws # {}
       THEN LET first == CHOOSE w \in ws :
                            \A u \in ws : ScanRank(c, w) <= ScanRank(c, u)
            IN b[(first[1] * c) + first[2]]
       ELSE IF \A k \in DOMAIN b : b[k] # "-" THEN "Draw"
       ELSE None

OpenCells(b) == {k \in DOMAIN b : b[k] = "-"}

MarkCount(b) == Cardinality(DOMAIN b \ OpenCells(b))

\* ----------------------------------------------------------------- claims

\* The estimate of state s in dict q, an unseen state counting as 0.0.
Estimate(q, s) == IF s \in DOMAIN q THEN q[s] ELSE Zero

\* The dict of the agent that made the last call.
TableOf(a) == qtables[agents[a].qtable]

Terminal == {"X", "O", "Draw"}

\* A transition made by a direct step() call: only step() counts in `steps`.
StepTaken == steps' = steps + 1 /\ last'.op = "step"

\* C1 as stated: the key whose entry step()'s update overwrites is the
\* identifier read at the start of step(), that of the board before the move.
C1_Claim == last.op = "step" => last.update_state = last.step_state

\* C1 amended: the update of every step() overwrites the entry of the
\* identifier of the board AFTER the move just taken; the entry of every
\* other state, the pre-move board's included, keeps its estimate.
C1_Theorem ==
    [][StepTaken =>
         LET id == agents[last'.agent].qtable
             key == get_state(board')
         IN /\ last'.update_state = key
            /\ last'.step_state = get_state(board)
            /\ key # get_state(board)
            /\ key \in DOMAIN qtables'[id]
            /\ \A s \in DOMAIN qtables'[id] \ {key} :
                  qtables'[id][s] = Estimate(qtables[id], s)]_vars

C1_Witness ==
    /\ last.op = "step"
    /\ last.update_state = get_state(board)
    /\ TableOf(last.agent)[last.update_state] # last.old
    /\ last.step_state \notin DOMAIN TableOf(last.agent)

\* C2: the update sets the updated state's estimate to
\* (1-alpha)*V_old + alpha*(reward + gamma*future_value), V_old being that
\* state's estimate before the call, 0.0 if unseen.
C2_Theorem ==
    [][StepTaken =>
         LET ag == agents[last'.agent]
             v_old == Estimate(qtables[ag.qtable], last'.update_state)
             kept == RMul(RSub(One, ag.learning_rate), v_old)
             target == RAdd(last'.reward, RMul(ag.discount, last'.future_val))
         IN qtables'[ag.qtable][last'.update_state]
               = RAdd(kept, RMul(ag.learning_rate, target))]_vars

C2_Witness ==
    /\ last.op = "step"
    /\ last.old = Zero
    /\ last.reward = One
    /\ last.future_val = Zero
    /\ agents[last.agent].learning_rate = Half
    /\ agents[last.agent].discount = One
    /\ TableOf(last.agent)[last.update_state] = Half

\* C3: the future value of the update is 0 when the move's status is
\* terminal; otherwise it is the maximum of the estimates of the post-move
\* board's legal successors if the player to move is the agent's own mark,
\* and their minimum otherwise.
SuccessorEstimates(q) ==
    {Estimate(q, get_state([board EXCEPT ![k] = player])) : k \in OpenCells(board)}

Highest(vs) == CHOOSE v \in vs : \A u \in vs : ~RLess(v, u)
Lowest(vs) == CHOOSE v \in vs : \A u \in vs : ~RLess(u, v)

C3_Theorem ==
    last.op = "step" =>
        last.future_val =
            IF last.status \in Terminal THEN Zero
            ELSE IF player = agents[last.agent].player
            THEN Highest(SuccessorEstimates(TableOf(last.agent)))
            ELSE Lowest(SuccessorEstimates(TableOf(last.agent)))

C3_Witness ==
    /\ last.op = "step"
    /\ last.status = None
    /\ last.future_val # Zero
    /\ Cardinality(SuccessorEstimates(TableOf(last.agent))) >= 2

\* C4: an Agent constructed without a qtable argument starts with an empty
\* dict that no other Agent holds, whatever earlier Agents have done.
C4_Claim ==
    \A a \in DOMAIN agents :
        agents[a].qtable = DefaultDict =>
            /\ (last.op = "Agent" /\ last.agent = a) => TableOf(a) = EmptyTable
            /\ \A b \in DOMAIN agents \ {a} : agents[b].qtable # agents[a].qtable

\* C5: train(episodes) runs to completion for every episodes >= 1 and
\* plays exactly `episodes` games.
C5_Claim ==
    /\ train.status # "ZeroDivisionError"
    /\ train.status = "done" => train.games = train.episodes

\* C6: for every board of a rows x cols grid, is_win() returns the mark of
\* the first in-bounds run of four equal marks in scan order, Draw iff there
\* is no run and no open cell, None iff there is no run and an open cell.
C6_Theorem ==
    last.op = "is_win" => last.status = RefStatus(board, rows, cols)

C6_Witness ==
    /\ last.op = "is_win"
    /\ HasRun(board, rows, cols, "X")
    /\ HasRun(board, rows, cols, "O")
    /\ last.status = "O"

\* C7 as stated: on the 6x7 board, when the cells 17, 24, 31, 38 hold one
\* mark m, is_win() returns m whatever the other cells hold.
Column3Holds == board[17] \in Marks /\ \A k \in Column3Run : board[k] = board[17]

C7_Claim ==
    (last.op = "is_win" /\ Column3Holds) => last.status = board[17]

\* C7 amended: is_win() then returns a mark, never Draw or None, and it
\* returns m whenever no run of four of the other mark starts at a cell
\* scanned before (2,3).
EarlierRun(m) ==
    \E w \in Windows(rows, cols) :
        /\ (w[1] * cols) + w[2] < 17
        /\ HoldsRun(board, cols, w, m)

C7_Theorem ==
    (last.op = "is_win" /\ Column3Holds) =>
        /\ last.status \in Marks
        /\ ~EarlierRun(toggle(board[17])) => last.status = board[17]

C7_Witness ==
    /\ last.op = "is_win"
    /\ Column3Holds
    /\ HasRun(board, rows, cols, toggle(board[17]))
    /\ last.status = board[17]

\* C8 as stated: no sequence of make_move calls from reset(), each on a
\* valid position, yields a board with a run of four for X and one for O.
DoubleWin(b) == HasRun(b, rows, cols, "X") /\ HasRun(b, rows, cols, "O")

C8_Claim == ~DoubleWin(board)

\* C8 amended: a valid make_move applied while is_win() is None (the game
\* is in progress, as every caller in the repository ensures) never yields
\* a board with a run of four for both marks.
C8_Theorem ==
    [][((\E position \in -1 .. (rows * cols) : make_move(position))
         /\ is_win(board, rows, cols) = None) => ~DoubleWin(board')]_vars

C8_Witness ==
    /\ last.op = "make_move"
    /\ last.status = "X"
    /\ MarkCount(board) = 7
    /\ HasRun(board, rows, cols, "X")

\* C9: get_open_moves() leaves every board cell and the active player as
\* they were before the call.
C9_Theorem == [][get_open_moves_call => (board' = board /\ player' = player)]_vars

C9_Witness ==
    /\ last.op = "get_open_moves"
    /\ Len(last.actions) >= 2
    /\ MarkCount(board) >= 3
    /\ player = "O"

\* C10: get_open_moves() returns as many states as actions, one per open
\* cell; the actions are the open cells' indices in increasing order and the
\* k-th state encodes the board with cell actions[k] set to the player's mark.
C10_Theorem ==
    last.op = "get_open_moves" =>
        /\ Len(last.states) = Len(last.actions)
        /\ Len(last.actions) = Cardinality(OpenCells(board))
        /\ {last.actions[k] : k \in 1 .. Len(last.actions)} = OpenCells(board)
        /\ \A k \in 1 .. (Len(last.actions) - 1) : last.actions[k] < last.actions[k + 1]
        /\ \A k \in 1 .. Len(last.actions) :
              last.states[k] = get_state([board EXCEPT ![last.actions[k]] = player])

C10_Witness ==
    /\ last.op = "get_open_moves"
    /\ Len(last.states) >= 3
    /\ MarkCount(board) >= 2
    /\ board[0] = "-"

\* C11: is_valid_move(position) answers True iff 0 <= position < rows*cols
\* and the cell is open, answers False for every other integer without
\* raising, and leaves the board and the active player as they were.
C11_Theorem ==
    [][(\E position \in -2 .. (rows * cols + 1) : is_valid_move_call(position)) =>
         /\ last'.valid = (last'.position \in OpenCells(board))
         /\ board' = board
         /\ player' = player]_vars

C11_Witness ==
    /\ last.op = "is_valid_move"
    /\ last.position \in DOMAIN board
    /\ board[last.position] = "O"
    /\ ~last.valid
    /\ OpenCells(board) # {}

\* C13: reset() leaves X to move, and in every state reached from it by
\* valid make_move calls the X marks outnumber the O marks by 0 or 1, X
\* being to move iff the counts are equal.
CountOf(b, m) == Cardinality({k \in DOMAIN b : b[k] = m})

C13_Theorem ==
    /\ CountOf(board, "X") - CountOf(board, "O") \in {0, 1}
    /\ player = "X" <=> CountOf(board, "X") = CountOf(board, "O")
    /\ last.op = "reset" => (player = "X" /\ MarkCount(board) = 0)

C13_Witness ==
    /\ last.op = "make_move"
    /\ player = "O"
    /\ CountOf(board, "X") = 3
    /\ CountOf(board, "O") = 2

\* C12: qvalue(s) on a state that is not a key returns 0.0 and leaves the
\* dict holding s at 0.0; on a key it returns the stored estimate; no other
\* entry is changed or removed.
C12_Theorem ==
    [][(\E a \in DOMAIN agents : qvalue_call(a)) =>
         LET id == agents[last'.agent].qtable
             q == qtables[id]
             after == qtables'[id]
             s == get_state(board)
         IN /\ DOMAIN after = DOMAIN q \cup {s}
            /\ s \notin DOMAIN q => (last'.value = Zero /\ after[s] = Zero)
            /\ s \in DOMAIN q => (last'.value = q[s] /\ after[s] = q[s])
            /\ \A t \in DOMAIN q : after[t] = q[t]
            /\ \A d \in DOMAIN qtables \ {id} : qtables'[d] = qtables[d]]_vars

C12_Witness ==
    /\ last.op = "qvalue"
    /\ ~last.seen
    /\ last.value = Zero
    /\ TableOf(last.agent)[last.step_state] = Zero
    /\ \E t \in DOMAIN TableOf(last.agent) : TableOf(last.agent)[t] # Zero

\* C14: stats() performs no value update: from its entry on, every state's
\* estimate (0.0 for a state that is not a key) stays what it was, and no
\* key is removed.
C14_Theorem ==
    [][(train'.status = "stats" \/ last'.op = "stats_step") =>
         \A d \in DOMAIN qtables :
             /\ DOMAIN qtables[d] \subseteq DOMAIN qtables'[d]
             /\ \A s \in DOMAIN qtables'[d] :
                    qtables'[d][s] = Estimate(qtables[d], s)]_vars

C14_Witness ==
    /\ last.op = "stats_step"
    /\ train.games >= 1
    /\ \E s \in DOMAIN TableOf(last.agent) : TableOf(last.agent)[s] = One
    /\ \E s \in DOMAIN TableOf(last.agent) : TableOf(last.agent)[s] = <<-1, 1>>
    /\ \E s \in DOMAIN TableOf(last.agent) \ DOMAIN GuideTable(rows, cols) :
           TableOf(last.agent)[s] = Zero

\* C15: a greedy choice (the exploit branch of next_move, every move of
\* stats) picks a successor whose estimate is the maximum over the legal
\* successors when the player to move is the agent's own mark and the
\* minimum otherwise, and every successor with that estimate can be picked.
Successor(k) == get_state([board EXCEPT ![k] = player])

BestEstimate(q, ag) ==
    IF player = ag.player THEN Highest(SuccessorEstimates(q))
    ELSE Lowest(SuccessorEstimates(q))

BestCells(q, ag) ==
    {k \in OpenCells(board) : Estimate(q, Successor(k)) = BestEstimate(q, ag)}

GreedyCells(q, ag, moves) ==
    {moves.actions[k] : k \in optimal_next(q, moves.states, player, ag.player).indices}

ExploitCells(nm) == {p.action : p \in {x \in nm.picks : ~x.explore}}

C15_Choices ==
    \A a \in DOMAIN agents :
        is_win(board, rows, cols) = None =>
            /\ GreedyCells(TableOf(a), agents[a], available_moves(board, player))
                  = BestCells(TableOf(a), agents[a])
            /\ RLess(agents[a].epsilon, One) =>
                  ExploitCells(next_move(TableOf(a), agents[a], board, player))
                     = BestCells(TableOf(a), agents[a])

C15_Theorem ==
    /\ []C15_Choices
    /\ [][((last'.op \in {"step", "train_step"} /\ ~last'.explore)
            \/ last'.op = "stats_step") =>
             last'.position \in BestCells(qtables[agents[last'.agent].qtable],
                                          agents[last'.agent])]_vars

C15_Witness ==
    /\ last.op = "step"
    /\ ~last.explore
    /\ last.status = None
    /\ Cardinality(last.optimal) = 2
    /\ \E k \in last.optimal : k < last.position
    /\ Cardinality(OpenCells(board)) = 2
    /\ player = agents[last.agent].player

\* C16: reward(status) is +1 for the agent's own mark, -1 for the
\* opponent's mark, and 0 for Draw and for None, whichever mark the agent is.
C16_Theorem ==
    last.op \in {"reward", "step", "train_step"} =>
        LET own == agents[last.agent].player
        IN /\ last.status = own => last.reward = One
           /\ last.status = toggle(own) => last.reward = <<-1, 1>>
           /\ last.status \in {"Draw", None} => last.reward = Zero

C16_Witness ==
    /\ last.op = "reward"
    /\ agents[last.agent].player = "O"
    /\ last.status = "X"
    /\ last.reward = <<-1, 1>>

\* C17 as stated: every next_move() makes exactly two draws, and the
\* tie-break draw (np.random.choice) is made only on the exploit branch.
C17_Claim ==
    last.op = "step" =>
        /\ Len(last.draws) = 2
        /\ last.explore => \A k \in 1 .. Len(last.draws) : last.draws[k] # "choice"

\* C17 amended: every next_move() first makes the tie-break draw inside
\* optimal_next(), then the draw of the epsilon test, and on the explore
\* branch a third draw for the action: two draws when exploiting, three
\* when exploring.
C17_Theorem ==
    last.op = "step" =>
        last.draws = IF last.explore THEN <<"choice", "random_sample", "randint">>
                     ELSE <<"choice", "random_sample">>

C17_Witness ==
    /\ last.op = "step"
    /\ last.explore
    /\ Len(last.draws) = 3
    /\ last.position \notin last.optimal

\* C18: in train() and stats() every move is selected on a board in
\* progress and lands on an open cell: the successor lists of the selection
\* and of the bootstrap are not empty, the move adds exactly one mark, and
\* the game goes on only while an open cell remains, else the board is reset.
C18_Theorem ==
    [][(last'.op \in {"train_step", "stats_step"}) =>
         LET placed == [board EXCEPT ![last'.position] = player]
         IN /\ RefStatus(board, rows, cols) = None
            /\ last'.position \in OpenCells(board)
            /\ last'.status = RefStatus(placed, rows, cols)
            /\ last'.status = None =>
                  (board' = placed /\ OpenCells(board') # {}
                   /\ MarkCount(board') = MarkCount(board) + 1)
            /\ last'.status # None =>
                  (board' = create_board(rows, cols) /\ player' = "X")]_vars

C18_Witness ==
    /\ last.op = "stats_step"
    /\ last.status = "X"
    /\ last.position = 3
    /\ rows * cols = 8
    /\ MarkCount(board) = 0
    /\ train.games >= 1

\* C19: with alpha in [0, 1] and gamma = 1, every estimate stored in a
\* dict lies in [-1, 1] after any sequence of step(), train() and stats()
\* calls from an empty dict (and from any dict whose entries lie there).
C19_Theorem ==
    \A d \in DOMAIN qtables : \A s \in DOMAIN qtables[d] :
        ~RLess(qtables[d][s], <<-1, 1>>) /\ ~RLess(One, qtables[d][s])

C19_Witness ==
    /\ last.op = "step"
    /\ rows * cols = 7
    /\ last.reward = One
    /\ last.old = Zero
    /\ TableOf(last.agent)[last.update_state] = One

====
